---- MODULE Spec2Model ----
(***************************************************************************)
(* Model of wasm3-rs src/module.rs: parsing a module, and the operations   *)
(* of a loaded-module token (Module { raw, raw_rt }): import lookup,       *)
(* linking of native functions and closures by emitting thunks into engine *)
(* code pages, function lookup, and the marshalling shim that guest calls  *)
(* reach through a closure thunk.                                          *)
(*                                                                         *)
(* One module is loaded into runtime RawRt; a second runtime exists so     *)
(* that a token can be used with the wrong runtime.  The engine (code-page *)
(* allocator, parser) is the environment: its outcomes are nondeterministic.*)
(***************************************************************************)
EXTENDS Integers, Sequences, FiniteSets, TLC

\* ------------------------------------------------------------------ bounds
MaxPages == 2         \* code pages the engine hands out per runtime
NumLines == 5         \* words per code page
MaxClosures == 2      \* heap addresses available to Box::pin
MaxCalls == 2         \* guest calls into linked imports
MaxLinks == 2         \* thunks emitted over a run
NumStackSlots == 3    \* (*runtime).numStackSlots

\* ------------------------------------------------------- handles and values
Runtimes == {1, 2}
RawRt == 1            \* Module.raw_rt: the runtime the token was loaded into
RawModule == 7        \* Module.raw: the engine's module handle
SlotBytes == 8        \* core::mem::size_of::<u64>()
StackBase == 64       \* (*runtime).stack, a byte address
NativeFns == {1, 2}   \* RawCall function pointers
GuestArgs == {1, 2}   \* argument values a guest passes
Addrs == 1 .. MaxClosures

\* A C string pointer: <<>> is the null pointer, <<s>> points at the bytes of s.
NullStr == <<>>
CStr(s) == <<s>>

\* A code address <<runtime, page, line>>; <<>> is the null pc.
NullPC == <<>>

\* Signatures: argument types and return type.
SigList ==
  << [args |-> <<>>, ret |-> "none"],
     [args |-> <<"i32">>, ret |-> "i32"],
     [args |-> <<"i64">>, ret |-> "i32"] >>
Contracts == 1 .. Len(SigList)

ModNames == {"env", "wasi", ""}
FieldNames == {"f", "g", ""}
FuncNames == {"fib", ""}
\* the names the linking runs draw from
LinkMods == {"env", ""}
LinkFields == {"f", ""}
\* the imports the guest-call runs link: env.f and env.g, both i32 -> i32
CallMods == {"env"}
CallFields == {"f", "g"}
CallContracts == {2}

\* usize lengths as three 16-bit limbs, most significant first.
Limb == 65536
U32Max == <<0, Limb - 1, Limb - 1>>          \* !0u32 as usize
Lens ==
  { <<0, 0, 0>>, <<0, 0, 62>>, <<0, 1, 0>>, <<0, Limb - 1, 0>>, U32Max,
    <<1, 0, 0>>, <<1, 0, 62>>, <<2, Limb - 1, Limb - 1>> }

\* a <= b on usize
LenLeq(a, b) ==
  \/ a[1] < b[1]
  \/ a[1] = b[1] /\ a[2] < b[2]
  \/ a[1] = b[1] /\ a[2] = b[2] /\ a[3] <= b[3]

\* `as u32`: keeps the low 32 bits
AsU32(a) == <<0, a[2], a[3]>>

\* ------------------------------------------------------------ function table
Import(m, f, sig) ==
  [import |-> [moduleUtf8 |-> CStr(m), fieldUtf8 |-> CStr(f)],
   name |-> NullStr, funcType |-> sig, compiled |-> NullPC, module |-> 0]

Defined(n, sig) ==
  [import |-> [moduleUtf8 |-> NullStr, fieldUtf8 |-> NullStr],
   name |-> CStr(n), funcType |-> sig, compiled |-> NullPC, module |-> 0]

\* Function tables of the loaded module: (*raw).functions, numFunctions.
\* Imports come first; <<>> is a module with no functions (functions null).
Tables ==
  { <<>>,
    << Import("env", "f", 2), Import("env", "g", 2),
       Import("env", "f", 3), Defined("fib", 2) >> }

\* Further tables for the lookup runs.
AllTables ==
  Tables \cup
  { << Import("wasi", "f", 2), Import("env", "g", 1),
       Import("env", "f", 3), Import("env", "f", 2), Defined("fib", 2) >>,
    << Import("", "", 1), Import("env", "", 2), Defined("fib", 2) >>,
    << Defined("fib", 2), Defined("", 1) >> }

VARIABLES
  functions,   \* the module's function table
  pages,       \* per runtime: the code pages, each [code |-> words]
  closures,    \* per runtime: Runtime's closure registry (boxed closure addresses)
  heap,        \* per address: [live, log] of the pinned closure stored there
  calls,       \* per table index: arguments of guest calls since its last link
  ncalls,      \* guest calls made so far
  last         \* the last operation: its inputs, result and engine calls

vars == <<functions, pages, closures, heap, calls, ncalls, last>>

\* --------------------------------------------------------- crate helpers
\* utils::eq_cstr_str: byte-for-byte equality of a C string and a str; a null
\* C string has no bytes and equals only the empty str.
eq_cstr_str(cstr, s) == IF cstr = NullStr THEN s = "" ELSE cstr[1] = s

\* utils::cstr_to_str
cstr_to_str(cstr) == IF cstr = NullStr THEN "" ELSE cstr[1]

\* utils::rt_check: TRUE when the check passes; the caller panics otherwise.
rt_check(rt, raw_rt) == rt = raw_rt

\* Error::from_ffi_res: the engine's result string as a Result.
from_ffi_res(res) ==
  CASE res = "m3Err_none" -> "Ok"
    [] res = "m3Err_mallocFailedCodePage" -> "OutOfMemory"
    [] OTHER -> "Wasm3Error"

\* Function::<ARGS, RET>::validate_sig: arity and every primitive type of the
\* contract against the slot's declared signature.
validate_sig(contract, func) ==
  LET want == SigList[contract]
      have == SigList[func.funcType]
  IN IF /\ Len(want.args) = Len(have.args)
        /\ \A i \in 1 .. Len(want.args) : want.args[i] = have.args[i]
        /\ want.ret = have.ret
     THEN "Ok" ELSE "SignatureMismatch"

\* Runtime::push_closure: appends the boxed closure to the runtime's registry.
push_closure(registry, closure) == Append(registry, closure)

Min(S) == CHOOSE x \in S : \A y \in S : x <= y

\* ------------------------------------------------------ engine primitives
NewPage == [code |-> <<>>, held |-> FALSE, cap |-> 0, emitted |-> 0, late |-> 0]

FreeLines(page) == NumLines - Len(page.code)

\* What AcquireCodePageWithCapacity may return: 0 (a null page), an open page
\* of the runtime with room for cap words, or a page allocated now.
AcquireOutcomes(pgs, rt, cap) ==
  {0}
  \cup {p \in 1 .. Len(pgs[rt]) : FreeLines(pgs[rt][p]) >= cap}
  \cup (IF Len(pgs[rt]) < MaxPages /\ cap <= NumLines THEN {Len(pgs[rt]) + 1} ELSE {})

\* The runtime's pages once page p (p > 0) is acquired with capacity cap.
AcquireCodePageWithCapacity(pgs, rt, p, cap) ==
  LET all == IF p = Len(pgs[rt]) + 1 THEN Append(pgs[rt], NewPage) ELSE pgs[rt]
  IN [pgs EXCEPT ![rt] =
        [all EXCEPT ![p] = [@ EXCEPT !.held = TRUE, !.cap = cap, !.emitted = 0]]]

\* The address of the page's next free line.
GetPagePC(pgs, rt, p) == <<rt, p, Len(pgs[rt][p].code)>>

\* Appends one word at the page's cursor.
EmitWord_impl(pgs, rt, p, word) ==
  [pgs EXCEPT ![rt][p] =
     [@ EXCEPT !.code = Append(@, word),
               !.emitted = @ + 1,
               !.late = IF pgs[rt][p].held THEN @ ELSE @ + 1]]

ReleaseCodePage(pgs, rt, p) == [pgs EXCEPT ![rt][p].held = FALSE]

Word(tag, arg) == [tag |-> tag, arg |-> arg]

\* ------------------------------------------------------------ import lookup
\* Module::find_import_function: the table index of the first entry that
\* passes the module-name filter and then the field-name test; 0 is
\* Err(FunctionNotFound).
find_import_function(fs, module_name, function_name) ==
  LET hits == {i \in 1 .. Len(fs) :
                 /\ eq_cstr_str(fs[i].import.moduleUtf8, module_name)
                 /\ eq_cstr_str(fs[i].import.fieldUtf8, function_name)}
  IN IF hits = {} THEN 0 ELSE Min(hits)

\* --------------------------------------------------------------- emitters
\* link_func_impl writing the slot's backpointer before it looks at the page.
link_func_impl_writes_first(fs, pgs, rt, slot, f, p) ==
  LET fs0 == [fs EXCEPT ![slot].module = RawModule] IN
  IF p = 0
  THEN [res |-> from_ffi_res("m3Err_mallocFailedCodePage"),
        functions |-> fs0, pages |-> pgs, asked |-> TRUE]
  ELSE LET pg0 == AcquireCodePageWithCapacity(pgs, rt, p, 2)
           fs1 == [fs0 EXCEPT ![slot].compiled = GetPagePC(pg0, rt, p)]
           pg1 == EmitWord_impl(pg0, rt, p, Word("op_CallRawFunction", 0))
           pg2 == EmitWord_impl(pg1, rt, p, Word("RawCall", f))
       IN [res |-> "Ok", functions |-> fs1,
           pages |-> ReleaseCodePage(pg2, rt, p), asked |-> TRUE]

\* Module::link_func_impl with the allocator returning page p (0: null).
link_func_impl(fs, pgs, rt, slot, f, p) ==
  IF p = 0
  THEN [res |-> from_ffi_res("m3Err_mallocFailedCodePage"),
        functions |-> fs, pages |-> pgs, asked |-> TRUE]
  ELSE LET pg0 == AcquireCodePageWithCapacity(pgs, rt, p, 2)
           fs1 == [fs EXCEPT ![slot].compiled = GetPagePC(pg0, rt, p),
                             ![slot].module = RawModule]
           pg1 == EmitWord_impl(pg0, rt, p, Word("op_CallRawFunction", 0))
           pg2 == EmitWord_impl(pg1, rt, p, Word("RawCall", f))
       IN [res |-> "Ok", functions |-> fs1,
           pages |-> ReleaseCodePage(pg2, rt, p), asked |-> TRUE]

\* link_closure_impl reading the page's pc after the words are emitted.
link_closure_impl_pc_after_emit(fs, pgs, rt, slot, contract, closure, p) ==
  IF p = 0
  THEN [res |-> from_ffi_res("m3Err_mallocFailedCodePage"),
        functions |-> fs, pages |-> pgs, asked |-> TRUE]
  ELSE LET pg0 == AcquireCodePageWithCapacity(pgs, rt, p, 3)
           pg1 == EmitWord_impl(pg0, rt, p, Word("op_CallRawFunctionEx", 0))
           pg2 == EmitWord_impl(pg1, rt, p, Word("_impl", contract))
           pg3 == EmitWord_impl(pg2, rt, p, Word("closure", closure))
           fs1 == [fs EXCEPT ![slot].compiled = GetPagePC(pg3, rt, p),
                             ![slot].module = RawModule]
       IN [res |-> "Ok", functions |-> fs1,
           pages |-> ReleaseCodePage(pg3, rt, p), asked |-> TRUE]

\* Module::link_closure_impl with the allocator returning page p (0: null);
\* contract names the shim instance _impl::<ARGS, RET, F>.
link_closure_impl(fs, pgs, rt, slot, contract, closure, p) ==
  IF p = 0
  THEN [res |-> from_ffi_res("m3Err_mallocFailedCodePage"),
        functions |-> fs, pages |-> pgs, asked |-> TRUE]
  ELSE LET pg0 == AcquireCodePageWithCapacity(pgs, rt, p, 3)
           fs1 == [fs EXCEPT ![slot].compiled = GetPagePC(pg0, rt, p),
                             ![slot].module = RawModule]
           pg1 == EmitWord_impl(pg0, rt, p, Word("op_CallRawFunctionEx", 0))
           pg2 == EmitWord_impl(pg1, rt, p, Word("_impl", contract))
           pg3 == EmitWord_impl(pg2, rt, p, Word("closure", closure))
       IN [res |-> "Ok", functions |-> fs1,
           pages |-> ReleaseCodePage(pg3, rt, p), asked |-> TRUE]

\* ------------------------------------------------------- marshalling shim
\* usize subtraction; -1 stands for an underflow (a panic in a debug build, a
\* wrapped value in a release build).
USub(a, b) == IF a >= 0 /\ b >= 0 /\ a >= b THEN a - b ELSE -1

\* stack_occupied measured in bytes: the division by the slot size left out.
stack_occupied_bytes(sp, stack_base) == USub(sp, stack_base)

\* stack_occupied: slots between the stack base and sp (byte addresses).
stack_occupied(sp, stack_base) ==
  LET bytes == USub(sp, stack_base)
  IN IF bytes < 0 THEN -1 ELSE bytes \div SlotBytes

\* The working stack view slice::from_raw_parts_mut(sp, len).
stack_view(sp, stack_base, numStackSlots) ==
  LET occupied == stack_occupied(sp, stack_base)
      len == USub(numStackSlots, occupied)
  IN [start |-> sp, len |-> len, occupied |-> occupied,
      underflow |-> (occupied < 0 \/ len < 0)]

\* The shim running a copy of the closure: the stored closure is left as it was.
invoke_closure_copy(h, closure, arg) == h

\* (&mut *closure.cast::<F>())(args): runs the closure stored at address
\* closure, which records the argument in its captured state.
invoke_closure(h, closure, arg) ==
  [h EXCEPT ![closure].log = Append(@, arg)]

\* ------------------------------------------------------------------- Init
EmptyHeapCell == [live |-> FALSE, log |-> <<>>]

Idle == [op |-> "none", result |-> "Ok"]

Init ==
  /\ functions \in Tables
  /\ pages = [r \in Runtimes |-> <<>>]
  /\ closures = [r \in Runtimes |-> <<>>]
  /\ heap = [a \in Addrs |-> EmptyHeapCell]
  /\ calls = [i \in 1 .. Len(functions) |-> <<>>]
  /\ ncalls = 0
  /\ last = Idle

\* ---------------------------------------------------------------- actions
\* Thunks emitted so far: every thunk starts with one operation word.
Thunks(pgs) ==
  LET ops == {"op_CallRawFunction", "op_CallRawFunctionEx"}
  IN Cardinality({t \in (Runtimes \X (1 .. MaxPages)) \X (1 .. NumLines) :
       /\ t[1][2] <= Len(pgs[t[1][1]])
       /\ t[2] <= Len(pgs[t[1][1]][t[1][2]].code)
       /\ pgs[t[1][1]][t[1][2]].code[t[2]].tag \in ops})

LinkRecord(op, rt, m, fld, c, res, slot, page, target) ==
  [op |-> op, rt |-> rt, mod |-> m, fld |-> fld, sig |-> c,
   result |-> res, slot |-> slot, page |-> page, target |-> target]

\* link_function linking without validating the signature.
link_function_found_unvalidated(fs, pgs, rt, slot, c, f, p) ==
  link_func_impl(fs, pgs, rt, slot, f, p)

\* link_function once the import is found: validate_sig(func).and_then(|_|
\* link_func_impl(rt, func, f)).
link_function_found(fs, pgs, rt, slot, c, f, p) ==
  LET v == validate_sig(c, fs[slot])
  IN IF v # "Ok"
     THEN [res |-> v, functions |-> fs, pages |-> pgs, asked |-> FALSE]
     ELSE link_func_impl(fs, pgs, rt, slot, f, p)

\* Module::link_function(self, rt, module_name, function_name, f) with
\* contract c = (ARGS, RET); p is what the allocator returns if it is asked.
link_function(fs, pgs, rt, m, fld, c, f, p) ==
  IF ~rt_check(rt, RawRt)
  THEN [res |-> "panic", functions |-> fs, pages |-> pgs, asked |-> FALSE,
        slot |-> 0, mod |-> "", fld |-> "", sig |-> 0]
  ELSE LET slot == find_import_function(fs, m, fld)
       IN IF slot = 0
          THEN [res |-> "FunctionNotFound", functions |-> fs, pages |-> pgs,
                asked |-> FALSE, slot |-> 0, mod |-> m, fld |-> fld, sig |-> c]
          ELSE [slot |-> slot, mod |-> m, fld |-> fld, sig |-> c]
               @@ link_function_found(fs, pgs, rt, slot, c, f, p)

\* What a link_function call leaves behind: r is link_function's outcome.
LinkFunctionDone(rt, r, f, p) ==
  /\ functions' = r.functions
  /\ pages' = r.pages
  /\ calls' = IF r.res = "Ok" THEN [calls EXCEPT ![r.slot] = <<>>] ELSE calls
  /\ last' = LinkRecord("link_function", rt, r.mod, r.fld, r.sig, r.res,
                        r.slot, IF r.asked THEN p ELSE -1,
                        IF r.asked THEN f ELSE 0)
  /\ UNCHANGED <<closures, heap, ncalls>>

\* A call of link_function; f and p are drawn only when the call gets as far
\* as asking the allocator for a page.
LinkFunction(rt, m, fld, c) ==
  LET probe == link_function(functions, pages, rt, m, fld, c, Min(NativeFns), 0)
  IN IF probe.asked
     THEN /\ Thunks(pages) < MaxLinks
          /\ \E f \in NativeFns, p \in AcquireOutcomes(pages, rt, 2) :
               LinkFunctionDone(rt, link_function(functions, pages, rt, m, fld, c, f, p),
                                f, p)
     ELSE LinkFunctionDone(rt, probe, 0, 0)

\* link_closure forgetting to hand the closure to the runtime.
registry_not_pushed(registry, a, res) == registry

\* The registry after link_closure_impl returned res for the closure boxed at
\* address a: `?` returns early on an error, rt.push_closure runs otherwise.
registry_after_link(registry, a, res) ==
  IF res = "Ok" THEN push_closure(registry, a) ELSE registry

\* The heap once link_closure returns: the box at a lives on only if the
\* registry took ownership of it; otherwise it is dropped at the end of scope.
heap_after_link(h, a, registry) ==
  IF a \notin DOMAIN h THEN h
  ELSE IF \E i \in 1 .. Len(registry) : registry[i] = a
  THEN [h EXCEPT ![a] = [live |-> TRUE, log |-> <<>>]]
  ELSE [h EXCEPT ![a] = EmptyHeapCell]

\* link_closure once the import is found: validate_sig(func)?, Box::pin
\* (at address a), link_closure_impl(..)?, rt.push_closure(closure).
link_closure_found(fs, pgs, regs, h, rt, slot, c, a, p) ==
  LET v == validate_sig(c, fs[slot])
  IN IF v # "Ok"
     THEN [res |-> v, functions |-> fs, pages |-> pgs, closures |-> regs,
           heap |-> h, asked |-> FALSE]
     ELSE LET r == link_closure_impl(fs, pgs, rt, slot, c, a, p)
              reg == registry_after_link(regs[rt], a, r.res)
          IN [res |-> r.res, functions |-> r.functions, pages |-> r.pages,
              closures |-> [regs EXCEPT ![rt] = reg],
              heap |-> heap_after_link(h, a, reg), asked |-> r.asked]

\* link_closure without its runtime check.
link_closure_no_rt_check(fs, pgs, regs, h, rt, m, fld, c, a, p) ==
  LET slot == find_import_function(fs, m, fld)
  IN IF slot = 0
     THEN [res |-> "FunctionNotFound", functions |-> fs, pages |-> pgs,
           closures |-> regs, heap |-> h, asked |-> FALSE,
           slot |-> 0, mod |-> m, fld |-> fld, sig |-> c]
     ELSE [slot |-> slot, mod |-> m, fld |-> fld, sig |-> c]
          @@ link_closure_found(fs, pgs, regs, h, rt, slot, c, a, p)

\* Module::link_closure(self, rt, module_name, function_name, closure) with
\* contract c; a is the address Box::pin allocates, p the allocator's page.
link_closure(fs, pgs, regs, h, rt, m, fld, c, a, p) ==
  IF ~rt_check(rt, RawRt)
  THEN [res |-> "panic", functions |-> fs, pages |-> pgs, closures |-> regs,
        heap |-> h, asked |-> FALSE, slot |-> 0, mod |-> "", fld |-> "", sig |-> 0]
  ELSE LET slot == find_import_function(fs, m, fld)
       IN IF slot = 0
          THEN [res |-> "FunctionNotFound", functions |-> fs, pages |-> pgs,
                closures |-> regs, heap |-> h, asked |-> FALSE,
                slot |-> 0, mod |-> m, fld |-> fld, sig |-> c]
          ELSE [slot |-> slot, mod |-> m, fld |-> fld, sig |-> c]
               @@ link_closure_found(fs, pgs, regs, h, rt, slot, c, a, p)

\* What a link_closure call leaves behind: r is link_closure's outcome.
LinkClosureDone(rt, r, a, p) ==
  /\ functions' = r.functions
  /\ pages' = r.pages
  /\ closures' = r.closures
  /\ heap' = r.heap
  /\ calls' = IF r.res = "Ok" THEN [calls EXCEPT ![r.slot] = <<>>] ELSE calls
  /\ last' = LinkRecord("link_closure", rt, r.mod, r.fld, r.sig, r.res,
                        r.slot, IF r.asked THEN p ELSE -1, a)
  /\ UNCHANGED ncalls

\* A call of link_closure; the box address a and the page p are drawn only
\* when the call gets as far as boxing the closure.
LinkClosure(rt, m, fld, c) ==
  LET probe == link_closure(functions, pages, closures, heap, rt, m, fld, c, 0, 0)
  IN IF probe.asked
     THEN /\ Thunks(pages) < MaxLinks
          /\ \E a \in {x \in Addrs : ~heap[x].live},
                p \in AcquireOutcomes(pages, rt, 3) :
               LinkClosureDone(rt, link_closure(functions, pages, closures, heap,
                                                rt, m, fld, c, a, p), a, p)
     ELSE LinkClosureDone(rt, probe, 0, 0)

\* The shim _impl::<ARGS, RET, F>(runtime, sp, _mem, closure) called with one
\* guest argument: the stack view it builds and the heap it leaves.
shim_impl(h, sp, closure, arg) ==
  [view |-> stack_view(sp, StackBase, NumStackSlots),
   heap |-> invoke_closure(h, closure, arg)]

\* A guest call into table entry i with the stack pointer k slots above the
\* stack base: the engine runs the thunk at the entry's compiled pc.
GuestCall(i, k, x) ==
  /\ ncalls < MaxCalls
  /\ i \in 1 .. Len(functions)
  /\ functions[i].compiled # NullPC
  /\ LET pc == functions[i].compiled
         code == pages[pc[1]][pc[2]].code
         sp == StackBase + k * SlotBytes
     IN IF code[pc[3] + 1].tag = "op_CallRawFunction"
        THEN /\ last' = [op |-> "guest_call", slot |-> i, result |-> "native",
                         target |-> code[pc[3] + 2].arg, arg |-> x]
             /\ UNCHANGED heap
        ELSE LET closure == code[pc[3] + 3].arg IN
             IF heap[closure].live
             THEN LET r == shim_impl(heap, sp, closure, x) IN
                  /\ heap' = r.heap
                  /\ last' = [op |-> "guest_call", slot |-> i, result |-> "shim",
                              target |-> closure, arg |-> x, depth |-> k,
                              view |-> r.view]
             ELSE \* a dangling closure pointer: undefined behaviour
                  /\ last' = [op |-> "guest_call", slot |-> i, result |-> "UB",
                              target |-> closure, arg |-> x]
                  /\ UNCHANGED heap
  /\ calls' = [calls EXCEPT ![i] = Append(@, x)]
  /\ ncalls' = ncalls + 1
  /\ UNCHANGED <<functions, pages, closures>>

AllFunctions == 1 .. Len(functions)

\* Function::from_raw(..).and_then(Function::compile) on a found entry.
function_from_raw(c, func) == validate_sig(c, func)

\* Module::find_function(self, rt, function_name) with contract c.
FindFunction(rt, n, c) ==
  /\ LET hits == {i \in AllFunctions : eq_cstr_str(functions[i].name, n)} IN
     last' = IF ~rt_check(rt, RawRt)
             THEN [op |-> "find_function", rt |-> rt, result |-> "panic", slot |-> 0]
             ELSE IF hits = {}
             THEN [op |-> "find_function", rt |-> rt,
                   result |-> "FunctionNotFound", slot |-> 0]
             ELSE [op |-> "find_function", rt |-> rt,
                   result |-> function_from_raw(c, functions[Min(hits)]),
                   slot |-> Min(hits)]
  /\ UNCHANGED <<functions, pages, closures, heap, calls, ncalls>>

\* Module::function(self, rt, function_index) with contract c; the index is
\* 0-based.
FunctionAt(rt, idx, c) ==
  /\ last' = IF ~rt_check(rt, RawRt)
             THEN [op |-> "function", rt |-> rt, result |-> "panic", slot |-> 0]
             ELSE IF idx + 1 \notin AllFunctions
             THEN [op |-> "function", rt |-> rt,
                   result |-> "FunctionNotFound", slot |-> 0]
             ELSE [op |-> "function", rt |-> rt,
                   result |-> function_from_raw(c, functions[idx + 1]),
                   slot |-> idx + 1]
  /\ UNCHANGED <<functions, pages, closures, heap, calls, ncalls>>

ModuleNameUtf8 == CStr("m")     \* (*self.raw).name

\* Module::name(self, rt)
Name(rt) ==
  /\ last' = IF ~rt_check(rt, RawRt)
             THEN [op |-> "name", rt |-> rt, result |-> "panic", slot |-> 0]
             ELSE [op |-> "name", rt |-> rt,
                   result |-> cstr_to_str(ModuleNameUtf8), slot |-> 0]
  /\ UNCHANGED <<functions, pages, closures, heap, calls, ncalls>>

EngineResults == {"m3Err_none", "m3Err_wasmMalformed"}

\* Module::link_libc(self, rt): a pass-through to m3_LinkLibC, which finds
\* none of its names among the tables' imports and answers e.
LinkLibc(rt, e) ==
  /\ last' = IF ~rt_check(rt, RawRt)
             THEN [op |-> "link_libc", rt |-> rt, result |-> "panic", slot |-> 0]
             ELSE [op |-> "link_libc", rt |-> rt,
                   result |-> from_ffi_res(e), slot |-> 0]
  /\ UNCHANGED <<functions, pages, closures, heap, calls, ncalls>>

\* Module::link_wasi(self, rt): a pass-through to m3_LinkWASI.
LinkWasi(rt, e) ==
  /\ last' = IF ~rt_check(rt, RawRt)
             THEN [op |-> "link_wasi", rt |-> rt, result |-> "panic", slot |-> 0]
             ELSE [op |-> "link_wasi", rt |-> rt,
                   result |-> from_ffi_res(e), slot |-> 0]
  /\ UNCHANGED <<functions, pages, closures, heap, calls, ncalls>>

\* ParsedModule::parse(env, bytes) for a slice of length len; e is what
\* m3_ParseModule answers if it is called.
parse(len, e) ==
  IF ~LenLeq(len, U32Max)
  THEN [op |-> "parse", len |-> len, result |-> "panic",
        parser |-> FALSE, passed |-> <<>>]
  ELSE [op |-> "parse", len |-> len, result |-> from_ffi_res(e),
        parser |-> TRUE, passed |-> AsU32(len)]

Parse(len, e) ==
  /\ last' = parse(len, e)
  /\ UNCHANGED <<functions, pages, closures, heap, calls, ncalls>>

\* Module::find_import_function on its own.
FindImport(m, fld) ==
  /\ last' = [op |-> "find_import_function", mod |-> m, fld |-> fld,
              slot |-> find_import_function(functions, m, fld)]
  /\ UNCHANGED <<functions, pages, closures, heap, calls, ncalls>>

\* Linking and the token's other operations, with either runtime.
Next ==
  \/ \E rt \in Runtimes, m \in LinkMods, fld \in LinkFields, c \in Contracts :
       LinkFunction(rt, m, fld, c)
  \/ \E rt \in Runtimes, m \in LinkMods, fld \in LinkFields, c \in Contracts :
       LinkClosure(rt, m, fld, c)
  \/ \E rt \in Runtimes, n \in FuncNames, c \in Contracts : FindFunction(rt, n, c)
  \/ \E rt \in Runtimes, idx \in 0 .. Len(functions), c \in Contracts :
       FunctionAt(rt, idx, c)
  \/ \E rt \in Runtimes : Name(rt)
  \/ \E rt \in Runtimes, e \in EngineResults : LinkLibc(rt, e)
  \/ \E rt \in Runtimes, e \in EngineResults : LinkWasi(rt, e)

Spec == Init /\ [][Next]_vars

\* Linking followed by guest calls into the linked imports.
NextCall ==
  \/ \E m \in CallMods, fld \in CallFields, c \in CallContracts :
       LinkFunction(RawRt, m, fld, c)
  \/ \E m \in CallMods, fld \in CallFields, c \in CallContracts :
       LinkClosure(RawRt, m, fld, c)
  \/ \E i \in 1 .. Len(functions), k \in 0 .. NumStackSlots, x \in GuestArgs :
       GuestCall(i, k, x)

SpecCall == Init /\ [][NextCall]_vars

\* The pure functions applied to inputs drawn from bounded sets.
InitPure ==
  /\ functions \in AllTables
  /\ pages = [r \in Runtimes |-> <<>>]
  /\ closures = [r \in Runtimes |-> <<>>]
  /\ heap = [a \in Addrs |-> EmptyHeapCell]
  /\ calls = [i \in 1 .. Len(functions) |-> <<>>]
  /\ ncalls = 0
  /\ last = Idle

NextPure ==
  \/ \E m \in ModNames, fld \in FieldNames : FindImport(m, fld)
  \/ \E len \in Lens, e \in EngineResults : Parse(len, e)

SpecPure == InitPure /\ [][NextPure]_vars

\* ================================================================= claims
LinkOps == {"link_function", "link_closure"}
TokenOps == LinkOps \cup {"find_function", "function", "name", "link_libc", "link_wasi"}

\* The closure pointers embedded in the thunks of runtime r's code pages.
ClosurePtrs(r) ==
  {w.arg : w \in UNION {{pages[r][q].code[l] : l \in 1 .. Len(pages[r][q].code)} :
                          q \in 1 .. Len(pages[r])} \cap
                 [tag : {"closure"}, arg : 0 .. MaxClosures + 1]}

InRegistry(r, a) == \E i \in 1 .. Len(closures[r]) : closures[r][i] = a

IsPrefix(s, t) == Len(s) <= Len(t) /\ \A i \in 1 .. Len(s) : s[i] = t[i]

C1_Held ==
  \A r \in Runtimes : \A a \in ClosurePtrs(r) :
    a \in Addrs /\ InRegistry(r, a) /\ heap[a].live

C1_Step ==
  /\ \A r \in Runtimes : IsPrefix(closures[r], closures'[r])
  /\ \A a \in Addrs : (\E r \in Runtimes : InRegistry(r, a)) => heap'[a].live
  /\ \A r \in Runtimes : ClosurePtrs(r) \subseteq ClosurePtrs(r)'
  /\ (last'.op = "link_closure" /\ last'.result = "Ok") =>
       LET pc == functions'[last'.slot].compiled
           emitted == pages'[pc[1]][pc[2]].code[pc[3] + 3].arg
       IN closures'[last'.rt] = Append(closures[last'.rt], emitted)
  /\ ~(last'.op = "link_closure" /\ last'.result = "Ok") => closures' = closures

\* C1: every closure pointer embedded in a thunk is held, live, in the
\* runtime's closure registry; registries only grow by appending, a
\* successful link_closure appends exactly the closure whose address it
\* emitted, and nothing else changes a registry or frees a registered closure.
C1_ClosuresOutliveThunks == []C1_Held /\ [][C1_Step]_vars

\* Two closure thunks emitted for the same import slot (a relink): the first
\* thunk is no longer the slot's entry, its closure is still registered.
C1_Witness ==
  /\ Cardinality(ClosurePtrs(RawRt)) = 2
  /\ Cardinality({i \in 1 .. Len(functions) : functions[i].compiled # NullPC}) = 1
  /\ last.op = "link_closure" /\ last.result = "Ok"

\* C2: a link whose code-page allocation returns null answers OutOfMemory and
\* leaves the function table, the code pages, the registries and the heap as
\* they were.
C2_AllocFailureAtomic ==
  [][(last'.op \in LinkOps /\ last'.page = 0) =>
       /\ last'.result = "OutOfMemory"
       /\ UNCHANGED <<functions, pages, closures, heap>>]_vars

\* An allocation failure of link_closure on a slot that was linked before.
C2_Witness ==
  /\ last.op = "link_closure" /\ last.result = "OutOfMemory"
  /\ functions[last.slot].compiled # NullPC

\* C3: a link whose contract differs from the found slot's signature answers
\* SignatureMismatch without asking for a code page and changes nothing.
C3_MismatchBeforeAcquire ==
  [][(/\ last'.op \in LinkOps
      /\ last'.slot # 0
      /\ SigList[last'.sig] # SigList[functions[last'.slot].funcType]) =>
       /\ last'.result = "SignatureMismatch"
       /\ last'.page = -1
       /\ UNCHANGED <<functions, pages, closures, heap>>]_vars

\* A contract of the wrong arity met at a slot that was linked before.
C3_Witness ==
  /\ last.op \in LinkOps /\ last.result = "SignatureMismatch"
  /\ Len(SigList[last.sig].args) # Len(SigList[functions[last.slot].funcType].args)
  /\ functions[last.slot].compiled # NullPC

\* An entry is an import when its import information is present.
IsImport(func) == func.import.moduleUtf8 # NullStr /\ func.import.fieldUtf8 # NullStr

ImportMatches(fs, m, fld) ==
  {i \in 1 .. Len(fs) :
     /\ IsImport(fs[i])
     /\ fs[i].import.moduleUtf8 = CStr(m)
     /\ fs[i].import.fieldUtf8 = CStr(fld)}

C6_WrongRuntimeRejected ==
  [][(last'.op \in TokenOps /\ last'.rt # RawRt) =>
       /\ last'.result = "panic"
       /\ last'.slot = 0
       /\ last'.op \in LinkOps => last'.page = -1
       /\ UNCHANGED <<functions, pages, closures, heap>>]_vars

\* link_closure rejected for the wrong runtime after a closure was linked.
C6_Witness ==
  /\ last.op = "link_closure" /\ last.rt # RawRt /\ last.result = "panic"
  /\ Len(closures[RawRt]) >= 1

\* C7: parse of a slice longer than 2^32 - 1 bytes answers the error value
\* ModuleTooLarge without calling the engine's parser.
C7_TooLargeIsError ==
  (last.op = "parse" /\ ~LenLeq(last.len, U32Max)) =>
     last.result = "ModuleTooLarge" /\ ~last.parser

IsClosureThunk(pc) ==
  pc # NullPC /\ pages[pc[1]][pc[2]].code[pc[3] + 1].tag = "op_CallRawFunctionEx"

ClosureOf(pc) == pages[pc[1]][pc[2]].code[pc[3] + 3].arg

\* C8: the closure a slot's thunk points at has recorded exactly the guest
\* calls made to the slot since it was linked, in call order.
C8_ClosureSeesEveryCall ==
  \A i \in 1 .. Len(functions) :
    IsClosureThunk(functions[i].compiled) =>
      LET a == ClosureOf(functions[i].compiled)
      IN heap[a].live /\ heap[a].log = calls[i]

\* Two guest calls with different arguments into a closure-linked slot.
C8_Witness ==
  \E i \in 1 .. Len(functions) :
    /\ IsClosureThunk(functions[i].compiled)
    /\ Len(calls[i]) = MaxCalls
    /\ calls[i][1] # calls[i][2]

ThunkOf(rec) ==
  IF rec.op = "link_function"
  THEN <<"op_CallRawFunction", "RawCall">>
  ELSE <<"op_CallRawFunctionEx", "_impl", "closure">>

Tags(code) == [l \in 1 .. Len(code) |-> code[l].tag]

C10_StackViewInBounds ==
  (last.op = "guest_call" /\ last.result = "shim") =>
    LET v == last.view IN
    /\ ~v.underflow
    /\ v.start = StackBase + last.depth * SlotBytes
    /\ v.len = NumStackSlots - last.depth
    /\ v.len + v.occupied = NumStackSlots
    /\ v.start + v.len * SlotBytes = StackBase + NumStackSlots * SlotBytes

\* A shim call with the stack partly occupied.
C10_Witness ==
  /\ last.op = "guest_call" /\ last.result = "shim"
  /\ last.depth > 0 /\ last.depth < NumStackSlots

====
